---- MODULE Spec2Model ----
(***************************************************************************)
(* State-machine model of memov's snapshot manager (MemovManager) over its *)
(* git plumbing (GitManager): workspace files, the bare object store, the  *)
(* refs/memov/HEAD ref and the branches.json registry.                     *)
(*                                                                         *)
(* Commit hashes are modelled as the index of the commit in the store (a   *)
(* commit's timestamp makes every commit-tree call produce a new object);  *)
(* the empty string git helpers return on failure is NoCommit.  A blob     *)
(* hash is modelled by the content it addresses; Absent is the empty       *)
(* string write_blob returns for a file it cannot read.  A run is a        *)
(* sequence of at most MaxOps manager calls and user edits.                *)
(***************************************************************************)
EXTENDS Integers, Sequences, FiniteSets, TLC

\* ---------------------------------------------------------------- bounds
\* The number of operations (manager calls and user edits) in a run.
MaxOps == 5

\* The setup operations (init, user edits) that precede the step-wise commits.
MaxSetup == 3
\* File contents 1..MaxContent are written in the scenario of section 5.
MaxContent == 4

\* ------------------------------------------------------------- constants
\* "" as returned by get_commit_id_by_ref / commit_tree on failure.
NoCommit == 0
\* A path that does not exist on disk; also "" as returned by write_blob.
Absent == 0

\* JSON null / Python None.
None == "null"

\* The workspace-relative file paths of the model.  ".memignore" holds the
\* ignore patterns; "a" and "b" are ordinary files.
memignore_path == ".memignore"
Paths == {memignore_path, "a", "b"}
\* The project directory itself, as a target of file discovery.
project_path == "."
\* File contents.  For ".memignore", content 1 is the header comment init
\* writes and content 2 is that header followed by the pattern line "b".
Contents == {1, 2}

PromptValues == {None, "P"}
ResponseValues == {None, "R"}

VARIABLES
    files,      \* workspace: path -> content, Absent when not on disk
    memDir,     \* whether .mem/ and the bare repo .mem/memov.git exist
    commits,    \* object store: commit hash (index) -> [tree, parent, msg]
    head,       \* refs/memov/HEAD: a commit hash, NoCommit when unset
    registry,   \* .mem/branches.json
    notes,      \* git notes: commit hash -> note text
    steps,      \* operations run so far
    last,       \* the last operation run and what it returned
    procs,      \* the processes that run a commit step by step
    walk        \* a directory tree, its .memignore lines and what discovery found

vars == <<files, memDir, commits, head, registry, notes, steps, last, procs, walk>>

\* f"{prompt}": None is written as the text "None".
FormatValue(v) == IF v = None THEN "None" ELSE v

\* The commit message of track, snapshot, rename and remove: its first line
\* and its "Prompt:" and "Response:" lines.
CommitMessage(first, prompt, response) ==
    [first |-> first, prompt |-> FormatValue(prompt), response |-> FormatValue(response)]

\* ------------------------------------------------------------ registry
\* _load_branches returns None when branches.json does not exist.
NoRegistry == [exists |-> FALSE, current |-> None, branches |-> <<>>]

BranchNames(branches) == {branches[i].name : i \in DOMAIN branches}

BranchTips(branches) == {branches[i].tip : i \in DOMAIN branches}

DevelopName(i) == "develop/" \o ToString(i)

\* Mutant of _next_develop_branch: the counter is not advanced.
_next_develop_branch_zero(branches) == "develop/0"

\* i = 0; while f"develop/{i}" in branches: i += 1
_next_develop_branch(branches) ==
    LET names == BranchNames(branches)
        i == CHOOSE k \in 0..Len(branches) :
                /\ DevelopName(k) \notin names
                /\ \A j \in 0..(k - 1) : DevelopName(j) \in names
    IN  DevelopName(i)

\* ------------------------------------------------------------ GitManager
CommitExists(cs, c) == c \in 1..Len(cs)

\* git rev-parse <ref>: "" when the ref cannot be resolved.  The bare
\* repository's own refs (refs/heads/main) are never written by memov.
get_commit_id_by_ref(st, ref) ==
    IF ref = "refs/memov/HEAD" /\ st.memDir THEN st.head ELSE NoCommit

\* git ls-tree -r --name-only: the relative paths of a commit's tree, [] when
\* the command fails.
get_files_by_commit(st, c) ==
    IF CommitExists(st.commits, c) THEN DOMAIN st.commits[c].tree ELSE {}

\* os.path.join(repo_path, "..", "..", rel_file)
AbsPath(rel_file) == ".mem/memov.git/../../" \o rel_file

\* The second list get_files_by_commit returns.
get_abs_files_by_commit(st, c) ==
    {AbsPath(p) : p \in get_files_by_commit(st, c)}

\* git hash-object -w: "" when the file cannot be read.
write_blob(st, p) == IF st.memDir THEN st.files[p] ELSE Absent

\* Mutant of update_ref: the ref is written whatever the value names.
update_ref_unchecked(st, cs, c) == c

\* git update-ref: fails (and only logs) when the value names no object.
update_ref(st, cs, c) == IF CommitExists(cs, c) THEN c ELSE st.head

\* git rev-list --reverse tip, oldest first.
RECURSIVE get_commit_history(_, _)
get_commit_history(cs, tip) ==
    IF ~CommitExists(cs, tip) THEN <<>>
    ELSE Append(get_commit_history(cs, cs[tip].parent), tip)

\* Mutant of write_blob_to_bare_repo: the commit is written without a parent.
write_blob_to_bare_repo_orphan(st, new_file_paths, commit_msg, storeOk) ==
    IF \/ new_file_paths = {}
       \/ \E p \in new_file_paths : write_blob(st, p) = Absent
       \/ ~storeOk
    THEN [ok |-> FALSE]
    ELSE [ok |-> TRUE,
          commit |-> [tree |-> [p \in new_file_paths |-> write_blob(st, p)],
                      parent |-> NoCommit,
                      msg |-> commit_msg]]

\* write_blob_to_bare_repo: the commit object written, or [ok |-> FALSE] when
\* it returns "" (no paths, a blob that could not be written so that mktree
\* rejects its input, or the store rejecting the write: storeOk = FALSE).
write_blob_to_bare_repo(st, new_file_paths, commit_msg, storeOk) ==
    IF \/ new_file_paths = {}
       \/ \E p \in new_file_paths : write_blob(st, p) = Absent
       \/ ~storeOk
    THEN [ok |-> FALSE]
    ELSE [ok |-> TRUE,
          commit |-> [tree |-> [p \in new_file_paths |-> write_blob(st, p)],
                      parent |-> get_commit_id_by_ref(st, "refs/memov/HEAD"),
                      msg |-> commit_msg]]

\* --------------------------------------------------------- ignore matcher
\* The non-blank, non-comment lines of a .memignore with the given content.
MemignoreLines(c) == IF c = 2 THEN {"b"} ELSE {}

\* _load_memignore: the file's patterns plus ".mem/".
_load_memignore(fs) ==
    (IF fs[memignore_path] # Absent THEN MemignoreLines(fs[memignore_path]) ELSE {})
        \cup {".mem/"}

\* PathSpec.match_file on the model's flat paths: a pattern without wildcard
\* or slash matches the file of that name; ".mem/" matches only below .mem.
match_file(patterns, rel_path) == rel_path \in patterns

\* Mutant of _filter_new_files: the paths already tracked are discovered
\* again.
_filter_new_files_tracked_too(fs, file_paths, tracked, exclude_memignore) ==
    {p \in Paths : /\ fs[p] # Absent
                   /\ p \in file_paths \/ project_path \in file_paths
                   /\ ~(exclude_memignore /\ p \in _load_memignore(fs))}

\* _filter_new_files: the relative paths discovered under the targets.  A
\* target that does not exist is logged and skipped; tracked = {} stands for
\* tracked_file_rel_paths = None (nothing is filtered as already tracked).
_filter_new_files(fs, file_paths, tracked, exclude_memignore) ==
    LET pspec == _load_memignore(fs)
        filter(p) == \/ exclude_memignore /\ match_file(pspec, p)
                     \/ p \in tracked
        walked == IF project_path \in file_paths
                  THEN {p \in Paths : fs[p] # Absent} ELSE {}
        named == {p \in file_paths \cap Paths : fs[p] # Absent}
    IN  {p \in walked \cup named : ~filter(p)}

\* ------------------------------------------------------- branch machine
\* Mutant of TipMatches: every branch is taken to be the one HEAD is on.
TipMatches_any(tip, head_commit) == TRUE

\* Mutant of TipMatches: no branch is found at HEAD.
TipMatches_never(tip, head_commit) == FALSE

\* if head_commit == commit_hash
TipMatches(tip, head_commit) == tip = head_commit

\* Mutant of ResetCurrent: the restore keeps the current branch.
ResetCurrent_kept(branches) == branches

\* branches["current"] = None
ResetCurrent(branches) == [branches EXCEPT !.current = None]

\* _update_branch.  Returns the registry and HEAD it leaves, and raised = TRUE
\* when _save_branches cannot write branches.json (no .mem directory).
_update_branch(st, cs, new_commit, reset_current_branch) ==
    LET branches == st.registry
        head_commit == get_commit_id_by_ref(st, "refs/memov/HEAD")
        hit == {i \in DOMAIN branches.branches :
                  TipMatches(branches.branches[i].tip, head_commit)}
    IN  IF ~st.memDir
        THEN [registry |-> st.registry, head |-> st.head, raised |-> TRUE]
        ELSE IF ~branches.exists
        THEN [registry |-> [exists |-> TRUE, current |-> "main",
                            branches |-> <<[name |-> "main", tip |-> new_commit]>>],
              head |-> update_ref(st, cs, new_commit), raised |-> FALSE]
        ELSE IF reset_current_branch
        THEN [registry |-> ResetCurrent(branches),
              head |-> update_ref(st, cs, new_commit), raised |-> FALSE]
        ELSE IF hit # {}
        THEN LET i == CHOOSE k \in hit : \A j \in hit : k <= j
             IN  [registry |-> [branches EXCEPT !.branches[i].tip = new_commit,
                                                !.current = branches.branches[i].name],
                  head |-> update_ref(st, cs, new_commit), raised |-> FALSE]
        ELSE LET new_branch == _next_develop_branch(branches.branches)
             IN  [registry |-> [branches EXCEPT
                                  !.branches = Append(@, [name |-> new_branch,
                                                          tip |-> new_commit]),
                                  !.current = new_branch],
                  head |-> update_ref(st, cs, new_commit), raised |-> FALSE]

\* _commit: write the commit, then update the branch metadata with whatever
\* hash came back (also with "").  An exception makes it return "" and leaves
\* the registry and HEAD as they were.
_commit(st, commit_msg, file_paths, storeOk) ==
    LET w == write_blob_to_bare_repo(st, file_paths, commit_msg, storeOk)
        cs == IF w.ok THEN Append(st.commits, w.commit) ELSE st.commits
        commit_hash == IF w.ok THEN Len(cs) ELSE NoCommit
        u == _update_branch(st, cs, commit_hash, FALSE)
    IN  IF u.raised
        THEN [st EXCEPT !.commits = cs] @@ [hash |-> NoCommit]
        ELSE [st EXCEPT !.commits = cs, !.registry = u.registry, !.head = u.head]
                @@ [hash |-> commit_hash]

\* ------------------------------------------------------------ processes
\* The processes that may run a committing operation on the workspace.
ProcIds == {1, 2}

\* What a process holds in memory while it runs _commit: its position, the
\* message and paths it commits, the hash write_blob_to_bare_repo returned,
\* the registry it loaded and the one it is about to save.
IdleProc == [pc |-> "idle", commit_msg |-> CommitMessage("", None, None), file_paths |-> {},
             commit_hash |-> NoCommit, branches |-> NoRegistry, overlapped |-> FALSE,
             at |-> "idle"]

\* ------------------------------------------------------------- plumbing
\* The manager-visible state as one record.
State == [files |-> files, memDir |-> memDir, commits |-> commits,
          head |-> head, registry |-> registry]

Apply(r) ==
    /\ files' = r.files
    /\ memDir' = r.memDir
    /\ commits' = r.commits
    /\ head' = r.head
    /\ registry' = r.registry

\* One more operation, within the bound on the length of a run.
Tick ==
    /\ steps < MaxOps
    /\ steps' = steps + 1
    /\ UNCHANGED <<procs, walk>>

NoReport == [untracked |-> {}, deleted |-> {}, modified |-> {}, clean |-> {}]

\* What the model remembers of the last call: the operation, its outcome
\* class, the status it returned and its arguments; for a committing
\* operation also the registry's current branch when it was called.
NoArgs == [old |-> "", new |-> "", target |-> NoCommit, cwd |-> "", report |-> NoReport,
           paths |-> {}, answer |-> "", prompt |-> None, response |-> None,
           again |-> FALSE, current |-> None]

Last(op, result, ret) == [op |-> op, result |-> result, ret |-> ret] @@ NoArgs

\* The outcome class of a call that reached _commit: committed, rejected
\* (the store refused the write) or failed (_commit returned "" otherwise).
Outcome(c, storeOk) ==
    IF c.hash # NoCommit THEN "committed"
    ELSE IF ~storeOk THEN "rejected" ELSE "failed"

\* ---------------------------------------------------------------- track
\* MemovManager.track on state st: the state it leaves, its outcome class
\* (noop | committed | failed) and the MemStatus it returns.
\* Mutant of track_all_files: only the new paths are committed.
track_all_files_new_only(tracked, new_files) == new_files

\* The tree track commits: every path of HEAD's tree and the new paths.
track_all_files(tracked, new_files) == tracked \cup new_files

trackOp(st, file_paths, storeOk) ==
    LET h1 == get_commit_id_by_ref(st, "refs/memov/HEAD")
        head_commit == IF h1 = NoCommit THEN get_commit_id_by_ref(st, "main") ELSE h1
        tracked == get_files_by_commit(st, head_commit)
        new_files == _filter_new_files(st.files, file_paths, tracked, TRUE)
        all_files == track_all_files(tracked, new_files)
        c == _commit(st, CommitMessage("Track files", None, None), all_files, storeOk)
    IN  IF file_paths = {} \/ new_files = {}
        THEN st @@ [hash |-> NoCommit, result |-> "noop", ret |-> "success"]
        ELSE c @@ [result |-> Outcome(c, storeOk),
                   ret |-> IF c.hash = NoCommit THEN "failed_to_commit" ELSE "success"]

\* The target lists track is called with: none, one path, the project
\* directory, or the two ordinary files.
TrackTargets == {{}} \cup {{p} : p \in Paths \cup {project_path}} \cup {{"a", "b"}}

track ==
    \E file_paths \in TrackTargets, storeOk \in BOOLEAN :
        LET r == trackOp(State, file_paths, storeOk)
        IN  /\ Tick
            /\ Apply(r)
            /\ notes' = notes
            /\ last' = [Last("track", r.result, r.ret) EXCEPT !.paths = file_paths,
                                                          !.current = registry.current]

\* ----------------------------------------------------------------- init
\* Mutant of initOp: the header is written and tracked whether or not
\* .memignore exists.
initOp_rewrites(st, storeOk) ==
    LET st2 == [st EXCEPT !.memDir = TRUE, !.files[memignore_path] = 1]
        r == trackOp(st2, {memignore_path}, storeOk)
    IN  [r EXCEPT !.ret = "success"]

\* MemovManager.init: create .mem and the bare repo; when .memignore does
\* not exist, write its header and track it.  Always returns SUCCESS.
initOp(st, storeOk) ==
    LET st1 == [st EXCEPT !.memDir = TRUE]
        st2 == [st1 EXCEPT !.files[memignore_path] = 1]
        r == trackOp(st2, {memignore_path}, storeOk)
    IN  IF st.files[memignore_path] # Absent
        THEN st1 @@ [hash |-> NoCommit, result |-> "noop", ret |-> "success"]
        ELSE [r EXCEPT !.ret = "success"]

init ==
    \E storeOk \in BOOLEAN :
        LET r == initOp(State, storeOk)
        IN  /\ Tick
            /\ Apply(r)
            /\ notes' = notes
            /\ last' = Last("init", r.result, r.ret)

\* ------------------------------------------------------------- snapshot
\* MemovManager.snapshot: commit HEAD's tracked paths with their on-disk
\* content.  The hash _commit returns is not looked at: SUCCESS either way.
\* Mutant of snapshot_commit_file_paths: the untracked files found by the
\* scan are committed too.
snapshot_commit_file_paths_all(tracked, new_files) == tracked \cup new_files

\* The paths snapshot commits: HEAD's tracked paths; the untracked files
\* found by the scan are only warned about.
snapshot_commit_file_paths(tracked, new_files) == tracked

snapshotOp(st, storeOk) ==
    LET head_commit == get_commit_id_by_ref(st, "refs/memov/HEAD")
        tracked == get_files_by_commit(st, head_commit)
        new_files == _filter_new_files(st.files, {project_path}, tracked, TRUE)
        c == _commit(st, CommitMessage("Create snapshot", None, None),
                     snapshot_commit_file_paths(tracked, new_files), storeOk)
    IN  IF tracked = {}
        THEN st @@ [hash |-> NoCommit, result |-> "noop", ret |-> "success"]
        ELSE c @@ [result |-> Outcome(c, storeOk),
                   ret |-> "success"]

snapshot ==
    \E storeOk \in BOOLEAN :
        LET r == snapshotOp(State, storeOk)
        IN  /\ Tick
            /\ Apply(r)
            /\ notes' = notes
            /\ last' = [Last("snapshot", r.result, r.ret) EXCEPT !.current = registry.current]

\* --------------------------------------------------------------- rename
\* MemovManager.rename: abort when both or neither path exists or when the old
\* path is not in HEAD's tree; move the file when the old path still exists;
\* then commit every non-ignored file found in the workspace.
\* Mutant of BothOrNeither: only an existing new path stops the rename.
BothOrNeither_both_only(old_file_existed, new_file_existed) ==
    old_file_existed /\ new_file_existed

\* The two early returns on the existence of the paths: both exist, or
\* neither does.
BothOrNeither(old_file_existed, new_file_existed) ==
    \/ old_file_existed /\ new_file_existed
    \/ ~old_file_existed /\ ~new_file_existed

renameOp(st, old, new, storeOk) ==
    LET old_file_existed == st.files[old] # Absent
        new_file_existed == st.files[new] # Absent
        head_commit == get_commit_id_by_ref(st, "refs/memov/HEAD")
        tracked_files == get_files_by_commit(st, head_commit)
        moved == IF old_file_existed
                 THEN [st EXCEPT !.files[new] = st.files[old], !.files[old] = Absent]
                 ELSE st
        first == IF old_file_existed THEN "Rename file"
                 ELSE "Rename file (already renamed by user)"
        file_list == _filter_new_files(moved.files, {project_path}, {}, TRUE)
        c == _commit(moved, CommitMessage(first, None, None), file_list, storeOk)
    IN  IF \/ BothOrNeither(old_file_existed, new_file_existed)
           \/ old \notin tracked_files
        THEN st @@ [hash |-> NoCommit, result |-> "abort", ret |-> None]
        ELSE c @@ [result |-> Outcome(c, storeOk),
                   ret |-> None]

rename ==
    \E old \in Paths, new \in Paths, storeOk \in BOOLEAN :
        LET r == renameOp(State, old, new, storeOk)
        IN  /\ Tick
            /\ Apply(r)
            /\ notes' = notes
            /\ last' = [Last("rename", r.result, r.ret) EXCEPT !.old = old, !.new = new,
                                                           !.current = registry.current]

\* --------------------------------------------------------------- remove
\* MemovManager.remove: abort when the path is not in HEAD's tree or when the
\* confirmation for an existing file is not "y"; delete the file if it
\* exists; then commit every non-ignored file found in the workspace.
\* The answers given to the confirmation prompt.
Answers == {"y", "Y", "yes", "n"}

\* Mutant of Confirmed: the removal goes ahead whatever the answer.
Confirmed_always(answer) == TRUE

\* input(...).strip().lower() == "y"
Confirmed(answer) == answer \in {"y", "Y"}

removeOp(st, file_path, answer, storeOk) ==
    LET head_commit == get_commit_id_by_ref(st, "refs/memov/HEAD")
        tracked_files == get_files_by_commit(st, head_commit)
        existed == st.files[file_path] # Absent
        removed == [st EXCEPT !.files[file_path] = Absent]
        first == IF existed THEN "Remove file" ELSE "Remove file (already missing)"
        file_list == _filter_new_files(removed.files, {project_path}, {}, TRUE)
        c == _commit(removed, CommitMessage(first, None, None), file_list, storeOk)
    IN  IF file_path \notin tracked_files \/ (existed /\ ~Confirmed(answer))
        THEN st @@ [hash |-> NoCommit, result |-> "abort", ret |-> None]
        ELSE c @@ [result |-> Outcome(c, storeOk),
                   ret |-> None]

remove ==
    \E file_path \in Paths, answer \in Answers, storeOk \in BOOLEAN :
        LET r == removeOp(State, file_path, answer, storeOk)
        IN  /\ Tick
            /\ Apply(r)
            /\ notes' = notes
            /\ last' = [Last("remove", r.result, r.ret) EXCEPT !.old = file_path,
                                                               !.answer = answer,
                                                               !.current = registry.current]

\* ----------------------------------------------------------------- jump
\* Every commit in the history of some branch tip.
ReachableCommits(st) ==
    UNION {{h[i] : i \in DOMAIN h} :
             h \in {get_commit_history(st.commits, t) :
                      t \in BranchTips(st.registry.branches)}}

\* The (absolute) paths in the tree of any commit in the history of any
\* branch tip.
all_tracked_files(st) ==
    UNION {get_abs_files_by_commit(st, c) : c \in ReachableCommits(st)}

\* git archive: None when the commit cannot be resolved.
git_archive(st, c) == CommitExists(st.commits, c)

\* Mutant of Extract: nothing is written to the workspace.
Extract_nothing(fs, tree) == fs

\* tar.extractall: every member of the archive is written over the workspace.
Extract(fs, tree) == [p \in Paths |-> IF p \in DOMAIN tree THEN tree[p] ELSE fs[p]]

\* Mutant of StaleFiles: the membership test inverted, so that the files of
\* the target are deleted and the stale ones are kept.
StaleFiles_inverted(st, tracked_abs, snapshot_files) ==
    {p \in Paths : /\ AbsPath(p) \in tracked_abs
                   /\ p \in snapshot_files
                   /\ st.files[p] # Absent}

\* Mutant of StaleFiles: the workspace is cleared of every file that is not
\* among snapshot_files, tracked before or not.
StaleFiles_whole_workspace(st, tracked_abs, snapshot_files) ==
    {p \in Paths : /\ AbsPath(p) \notin snapshot_files
                   /\ st.files[p] # Absent}

\* The files jump deletes before extracting: every file on disk whose
\* absolute path was ever tracked and is not among snapshot_files, which
\* holds the target tree's relative paths.
StaleFiles(st, tracked_abs, snapshot_files) ==
    {p \in Paths : /\ AbsPath(p) \in tracked_abs
                   /\ AbsPath(p) \notin snapshot_files
                   /\ st.files[p] # Absent}

\* Mutant of jump_reset_current_branch: jump updates the branch metadata the
\* way a commit does.
jump_reset_current_branch_off == FALSE

\* self._update_branch(commit_hash, reset_current_branch=True)
jump_reset_current_branch == TRUE

\* MemovManager.jump.  An unreadable registry (None) or a branch tip that
\* rev-list cannot resolve raises before anything is touched ("error"); the
\* deletion loop compares absolute paths with the target tree's relative
\* paths; a missing archive returns after the deletions ("failed").
jumpOp(st, commit_hash) ==
    LET tracked_abs == all_tracked_files(st)
        snapshot_files == get_files_by_commit(st, commit_hash)
        deleted == StaleFiles(st, tracked_abs, snapshot_files)
        pruned == [st EXCEPT !.files = [p \in Paths |->
                                          IF p \in deleted THEN Absent ELSE st.files[p]]]
        restored == [pruned EXCEPT
                       !.files = Extract(pruned.files, st.commits[commit_hash].tree)]
        u == _update_branch(restored, st.commits, commit_hash, jump_reset_current_branch)
    IN  IF \/ ~st.registry.exists
           \/ \E t \in BranchTips(st.registry.branches) : ~CommitExists(st.commits, t)
        THEN st @@ [result |-> "error"]
        ELSE IF ~git_archive(st, commit_hash)
        THEN pruned @@ [result |-> "failed"]
        ELSE [restored EXCEPT !.registry = u.registry, !.head = u.head]
                @@ [result |-> "ok"]

jump ==
    \E commit_hash \in {NoCommit} \cup (1..Len(commits)) :
        LET r == jumpOp(State, commit_hash)
        IN  /\ Tick
            /\ Apply(r)
            /\ notes' = notes
            /\ last' = [Last("jump", r.result, None) EXCEPT
                          !.target = commit_hash,
                          !.again = last.op = "jump" /\ last.target = commit_hash]

\* --------------------------------------------------------------- status
\* Path(p).resolve(): a relative path is resolved against the process's
\* working directory, an absolute one is kept.
ProjectAbs == "/project"

Resolve(base, rel_path) == base \o "/" \o rel_path

\* git ls-tree -r: resolved path -> blob of the commit's tree ({} when the
\* command fails); the tree's relative paths are resolved against cwd.
get_files_and_blobs_by_commit(st, c, cwd) ==
    IF CommitExists(st.commits, c)
    THEN {<<Resolve(cwd, p), st.commits[c].tree[p]>> : p \in DOMAIN st.commits[c].tree}
    ELSE {}

Keys(pairs) == {kv[1] : kv \in pairs}

\* Mutant of statusOp: a missing registry is taken as nothing tracked yet.
statusOp_benign(st, cwd) == [ret |-> "success", report |-> NoReport]

\* MemovManager.status: HEAD's tree against a scan of the workspace that does
\* not apply .memignore.  The classification of lines 447-458; "clean" is
\* only logged.  No registry: load_branches().get raises, UNKNOWN_ERROR.
statusOp(st, cwd) ==
    LET head_commit == get_commit_id_by_ref(st, "refs/memov/HEAD")
        tracked_files_and_blobs == get_files_and_blobs_by_commit(st, head_commit, cwd)
        workspace_files == _filter_new_files(st.files, {project_path}, {}, FALSE)
        worktree_files_and_blobs ==
            {<<Resolve(ProjectAbs, p), write_blob(st, p)>> : p \in workspace_files}
        all_files == Keys(tracked_files_and_blobs) \cup Keys(worktree_files_and_blobs)
        untracked == {f \in all_files : f \notin Keys(tracked_files_and_blobs)}
        deleted == {f \in all_files \ untracked : f \notin Keys(worktree_files_and_blobs)}
        modified == {f \in all_files \ (untracked \cup deleted) :
                       \E t \in tracked_files_and_blobs, w \in worktree_files_and_blobs :
                           t[1] = f /\ w[1] = f /\ t[2] # w[2]}
        clean == all_files \ (untracked \cup deleted \cup modified)
    IN  IF ~st.registry.exists
        THEN [ret |-> "unknown_error", report |-> NoReport]
        ELSE [ret |-> "success",
              report |-> [untracked |-> untracked, deleted |-> deleted,
                          modified |-> modified, clean |-> clean]]

status ==
    \E cwd \in {ProjectAbs, "/elsewhere"} :
        LET r == statusOp(State, cwd)
        IN  /\ Tick
            /\ last' = [Last("status", IF r.ret = "success" THEN "ok" ELSE "error", r.ret)
                          EXCEPT !.report = r.report, !.cwd = cwd]
            /\ UNCHANGED <<files, memDir, commits, head, registry, notes>>

\* ---------------------------------------------------------------- amend
\* Mutant of NothingToAmend: the call is never rejected.
NothingToAmend_never(prompt, response) == FALSE

\* if not (prompt or response): None and the empty string are falsy.
NothingToAmend(prompt, response) ==
    /\ prompt = None \/ prompt = ""
    /\ response = None \/ response = ""

\* MemovManager.amend_commit_message: rejected when neither prompt nor
\* response is given; otherwise git notes add -f, which replaces the commit's
\* note and fails when the commit does not exist.  The note holds a
\* "Prompt:" line and a "Response:" line for the values that are not None.
amendOp(st, nts, commit_hash, prompt, response) ==
    IF NothingToAmend(prompt, response) THEN [notes |-> nts, result |-> "abort"]
    ELSE IF ~CommitExists(st.commits, commit_hash) THEN [notes |-> nts, result |-> "failed"]
    ELSE [notes |-> (commit_hash :> [prompt |-> prompt, response |-> response]) @@ nts,
          result |-> "ok"]

amend_commit_message ==
    \E commit_hash \in {NoCommit} \cup (1..Len(commits)), prompt \in PromptValues,
       response \in ResponseValues :
        LET r == amendOp(State, notes, commit_hash, prompt, response)
        IN  /\ Tick
            /\ notes' = r.notes
            /\ last' = [Last("amend", r.result, None) EXCEPT !.target = commit_hash,
                                                            !.prompt = prompt,
                                                            !.response = response]
            /\ UNCHANGED <<files, memDir, commits, head, registry>>

\* ------------------------------------------------------ history and trace
\* git log -1 --pretty=format:%B
get_commit_message(st, c) == st.commits[c].msg

\* git notes show: the note's "Prompt:" and "Response:" lines, found = FALSE
\* (the empty string) when the commit has no note.
get_commit_note(nts, c) ==
    IF c \in DOMAIN nts
    THEN [found |-> TRUE, prompt |-> nts[c].prompt, response |-> nts[c].response]
    ELSE [found |-> FALSE, prompt |-> None, response |-> None]

UpperCase == "ABCDEFGHIJKLMNOPQRSTUVWXYZ"

LowerCase == "abcdefghijklmnopqrstuvwxyz"

\* The lower-case letter of every upper-case letter.
LowerOf ==
    [c \in {SubSeq(UpperCase, i, i) : i \in 1..Len(UpperCase)} |->
        LET i == CHOOSE k \in 1..Len(UpperCase) : SubSeq(UpperCase, k, k) = c
        IN  SubSeq(LowerCase, i, i)]

\* str.lower() on one character.
LowerChar(c) == IF c \in DOMAIN LowerOf THEN LowerOf[c] ELSE c

\* str.lower()
RECURSIVE Lower(_)
Lower(s) ==
    IF s = "" THEN ""
    ELSE LowerChar(SubSeq(s, 1, 1)) \o Lower(SubSeq(s, 2, Len(s)))

\* keyword in line
Contains(line, keyword) ==
    \E i \in 1..(Len(line) - Len(keyword) + 1) :
        SubSeq(line, i, i + Len(keyword) - 1) = keyword

\* Mutant of _extract_operation_type: the rename keyword is cut to "re".
_extract_operation_type_short_keyword(message) ==
    LET first_line == Lower(message.first)
    IN  IF message.first = "" THEN "unknown"
        ELSE IF Contains(first_line, "track") THEN "track"
        ELSE IF Contains(first_line, "snapshot") \/ Contains(first_line, "snap") THEN "snap"
        ELSE IF Contains(first_line, "re") THEN "rename"
        ELSE IF Contains(first_line, "remove") THEN "remove"
        ELSE "unknown"

\* _extract_operation_type: keyword match, in this order, on the lower-cased
\* first line of the commit message.
_extract_operation_type(message) ==
    LET first_line == Lower(message.first)
    IN  IF message.first = "" THEN "unknown"
        ELSE IF Contains(first_line, "track") THEN "track"
        ELSE IF Contains(first_line, "snapshot") \/ Contains(first_line, "snap") THEN "snap"
        ELSE IF Contains(first_line, "rename") THEN "rename"
        ELSE IF Contains(first_line, "remove") THEN "remove"
        ELSE "unknown"

ShortLen == 15

\* short_msg: the first 15 characters, "..." appended to a longer value.
short_msg(val) ==
    IF val = "" THEN ""
    ELSE IF Len(val) > ShortLen THEN SubSeq(val, 1, ShortLen) \o "..." ELSE val

\* short_msg(prompt) if prompt and prompt != "None" else "None"
Display(val) == IF val # "" /\ val # "None" THEN short_msg(val) ELSE "None"

\* One row of history: the prompt and response of the commit message, each
\* replaced by the note's when the note has that line.
HistoryRow(st, nts, hash_id) ==
    LET message == get_commit_message(st, hash_id)
        note_content == get_commit_note(nts, hash_id)
        prompt == IF note_content.found /\ note_content.prompt # None
                  THEN note_content.prompt ELSE message.prompt
        response == IF note_content.found /\ note_content.response # None
                    THEN note_content.response ELSE message.response
    IN  [commit |-> hash_id,
         operation |-> _extract_operation_type(message),
         prompt |-> Display(prompt),
         response |-> Display(response)]

\* The rows history prints for the branches from the i-th on: each branch's
\* commits oldest first, a commit already seen skipped.  A tip that rev-list
\* cannot resolve raises, which ends the listing.
RECURSIVE HistoryRows(_, _, _, _)
HistoryRows(st, nts, i, seen) ==
    IF i > Len(st.registry.branches) THEN <<>>
    ELSE IF ~CommitExists(st.commits, st.registry.branches[i].tip) THEN <<>>
    ELSE LET commit_history == get_commit_history(st.commits, st.registry.branches[i].tip)
             fresh == SelectSeq(commit_history, LAMBDA c : c \notin seen)
         IN  [k \in DOMAIN fresh |-> HistoryRow(st, nts, fresh[k])]
                 \o HistoryRows(st, nts, i + 1, seen \cup {fresh[k] : k \in DOMAIN fresh})

\* MemovManager.history: the rows of the table; none without a registry.
historyOp(st, nts) ==
    IF ~st.registry.exists THEN <<>> ELSE HistoryRows(st, nts, 1, {})

history ==
    /\ Tick
    /\ last' = Last("history",
                    IF \/ ~registry.exists
                       \/ \E t \in BranchTips(registry.branches) : ~CommitExists(commits, t)
                    THEN "error" ELSE "ok", None)
    /\ UNCHANGED <<files, memDir, commits, head, registry, notes>>

\* TraceExporter._parse_commit_message: the "Prompt:" and "Response:" lines
\* of the commit message.
_parse_commit_message(commit_message) ==
    [prompt |-> commit_message.prompt, response |-> commit_message.response]

\* TraceExporter.export_trace: one record per commit in the history of a
\* branch tip, built from the commit message alone; raises without a
\* registry or when a tip cannot be resolved.  The records are written to
\* output_path, taken here to lie outside the workspace.
export_traceOp(st) ==
    IF \/ ~st.registry.exists
       \/ \E t \in BranchTips(st.registry.branches) : ~CommitExists(st.commits, t)
    THEN [raised |-> TRUE, trace_data |-> {}]
    ELSE [raised |-> FALSE,
          trace_data |->
              {[commit_hash |-> c,
                operation |-> _extract_operation_type(get_commit_message(st, c)),
                prompt |-> _parse_commit_message(get_commit_message(st, c)).prompt,
                response |-> _parse_commit_message(get_commit_message(st, c)).response]
                 : c \in ReachableCommits(st)}]

export_trace ==
    /\ Tick
    /\ last' = Last("export_trace",
                    IF export_traceOp(State).raised THEN "error" ELSE "ok", None)
    /\ UNCHANGED <<files, memDir, commits, head, registry, notes>>

\* ----------------------------------------------------------- environment
\* The user (or an assisting agent) edits or creates a workspace file.
UserWrite ==
    \E p \in Paths, c \in Contents :
        /\ Tick
        /\ files[p] # c
        /\ files' = [files EXCEPT ![p] = c]
        /\ last' = Last("user", "ok", None)
        /\ UNCHANGED <<memDir, commits, head, registry, notes>>

\* The user deletes a workspace file.
UserDelete ==
    \E p \in Paths :
        /\ Tick
        /\ files[p] # Absent
        /\ files' = [files EXCEPT ![p] = Absent]
        /\ last' = Last("user", "ok", None)
        /\ UNCHANGED <<memDir, commits, head, registry, notes>>

\* ------------------------------------------------- a commit, step by step
\* The positions of a process inside a committing operation, in program
\* order: the operation has computed what to commit (begun), the commit is
\* written, the registry is loaded, HEAD is read and the registry updated in
\* memory (resolved), the registry is saved, HEAD is moved (done).
PcAfter(pc) ==
    CASE pc = "begun" -> "written"
      [] pc = "written" -> "loaded"
      [] pc = "loaded" -> "resolved"
      [] pc = "resolved" -> "saved"
      [] pc = "saved" -> "done"

Running == {"begun", "written", "loaded", "resolved", "saved"}

\* Mutant of CommitStep: HEAD is moved before the registry is saved.
CommitStep_head_first(pc) ==
    CASE pc = "begun" -> "write_commit"
      [] pc = "written" -> "load_registry"
      [] pc = "loaded" -> "read_head"
      [] pc = "resolved" -> "move_head"
      [] pc = "saved" -> "save_registry"
      [] OTHER -> "none"

\* The statement a process at pc executes next: _commit calls
\* write_blob_to_bare_repo and then _update_branch, which loads the
\* registry, reads HEAD, saves the registry and updates the ref.
CommitStep(pc) ==
    CASE pc = "begun" -> "write_commit"
      [] pc = "written" -> "load_registry"
      [] pc = "loaded" -> "read_head"
      [] pc = "resolved" -> "save_registry"
      [] pc = "saved" -> "move_head"
      [] OTHER -> "none"

\* The operations the processes run: a snapshot, or track of one file.
StepOps == {{}, {"a"}, {"b"}}

\* What the operation hands to _commit: track(file_paths) its tracked and
\* new paths, snapshot (file_paths = {}) the tracked paths; go = FALSE when
\* the operation returns before _commit.
BeginOp(st, file_paths) ==
    LET head_commit == get_commit_id_by_ref(st, "refs/memov/HEAD")
        tracked == get_files_by_commit(st, head_commit)
        new_files == _filter_new_files(st.files,
                        IF file_paths = {} THEN {project_path} ELSE file_paths,
                        tracked, TRUE)
    IN  IF file_paths = {}
        THEN [go |-> tracked # {},
              commit_msg |-> CommitMessage("Create snapshot", None, None),
              file_paths |-> snapshot_commit_file_paths(tracked, new_files)]
        ELSE [go |-> new_files # {},
              commit_msg |-> CommitMessage("Track files", None, None),
              file_paths |-> track_all_files(tracked, new_files)]

StepFrame == UNCHANGED <<files, memDir, notes, steps, last, walk>>

\* A process starts an operation; it overlaps with every process that is
\* inside a commit at that moment.
Begin(p) ==
    \E file_paths \in StepOps :
        LET b == BeginOp(State, file_paths)
            busy == {q \in ProcIds \ {p} : procs[q].pc \in Running}
        IN  /\ procs[p].pc = "idle"
            /\ b.go
            /\ procs' = [q \in ProcIds |->
                            IF q = p
                            THEN [procs[p] EXCEPT !.pc = "begun",
                                                  !.commit_msg = b.commit_msg,
                                                  !.file_paths = b.file_paths,
                                                  !.overlapped = busy # {}]
                            ELSE IF q \in busy
                            THEN [procs[q] EXCEPT !.overlapped = TRUE]
                            ELSE procs[q]]
            /\ UNCHANGED <<commits, head, registry>>
            /\ StepFrame

\* commit_hash = GitManager.write_blob_to_bare_repo(...)
WriteCommit(p) ==
    \E storeOk \in BOOLEAN :
        LET w == write_blob_to_bare_repo(State, procs[p].file_paths,
                                         procs[p].commit_msg, storeOk)
        IN  /\ CommitStep(procs[p].pc) = "write_commit"
            /\ commits' = IF w.ok THEN Append(commits, w.commit) ELSE commits
            /\ procs' = [procs EXCEPT ![p].pc = PcAfter(@),
                                      ![p].commit_hash =
                                          IF w.ok THEN Len(commits) + 1 ELSE NoCommit]
            /\ UNCHANGED <<head, registry>>
            /\ StepFrame

\* branches = self._load_branches()
LoadRegistry(p) ==
    /\ CommitStep(procs[p].pc) = "load_registry"
    /\ procs' = [procs EXCEPT ![p].pc = PcAfter(@), ![p].branches = registry]
    /\ UNCHANGED <<commits, head, registry>>
    /\ StepFrame

\* The registry _update_branch builds in memory from the one it loaded and
\* the HEAD it reads now.
ReadHead(p) ==
    LET loaded == [State EXCEPT !.registry = procs[p].branches, !.memDir = TRUE]
        u == _update_branch(loaded, commits, procs[p].commit_hash, FALSE)
    IN  /\ CommitStep(procs[p].pc) = "read_head"
        /\ procs' = [procs EXCEPT ![p].pc = PcAfter(@), ![p].branches = u.registry]
        /\ UNCHANGED <<commits, head, registry>>
        /\ StepFrame

\* self._save_branches(branches): raises when .mem does not exist, which
\* ends _commit.
SaveRegistry(p) ==
    /\ CommitStep(procs[p].pc) = "save_registry"
    /\ IF memDir
       THEN /\ registry' = procs[p].branches
            /\ procs' = [procs EXCEPT ![p].pc = PcAfter(@)]
       ELSE /\ registry' = registry
            /\ procs' = [procs EXCEPT ![p].pc = "done"]
    /\ UNCHANGED <<commits, head>>
    /\ StepFrame

\* GitManager.update_ref(self.bare_repo_path, "refs/memov/HEAD", new_commit)
MoveHead(p) ==
    /\ CommitStep(procs[p].pc) = "move_head"
    /\ head' = update_ref(State, commits, procs[p].commit_hash)
    /\ procs' = [procs EXCEPT ![p].pc = PcAfter(@)]
    /\ UNCHANGED <<commits, registry>>
    /\ StepFrame

\* The process dies between two statements.
Crash(p) ==
    /\ procs[p].pc \in Running
    /\ procs' = [procs EXCEPT ![p].pc = "crashed", ![p].at = procs[p].pc]
    /\ UNCHANGED <<commits, head, registry>>
    /\ StepFrame

\* The workspace is set up, by init and user edits, before the processes
\* start.
Setup ==
    /\ \A p \in ProcIds : procs[p].pc = "idle"
    /\ steps < MaxSetup
    /\ init \/ UserWrite

StepsNext ==
    \/ Setup
    \/ \E p \in ProcIds : Begin(p)
    \/ \E p \in ProcIds : WriteCommit(p)
    \/ \E p \in ProcIds : LoadRegistry(p)
    \/ \E p \in ProcIds : ReadHead(p)
    \/ \E p \in ProcIds : SaveRegistry(p)
    \/ \E p \in ProcIds : MoveHead(p)
    \/ \E p \in ProcIds : Crash(p)

\* ------------------------------------------ discovery in a directory tree
\* The most lines the .memignore of the tree holds.
MaxPatterns == 2

\* The files of the tree, each as the components of its relative path.
WalkFiles == {<<"top">>, <<"build", "x">>, <<"build", "sub", "keep">>,
              <<"src", ".mem", "cfg">>}

\* A .memignore line without wildcards: "!" negates, a trailing "/" makes it
\* match below the named directory only, a line with an inner "/" is
\* anchored at the project root.
Pattern(negated, dir_only, segs) == [negated |-> negated, dir_only |-> dir_only, segs |-> segs]

PatternLines == {Pattern(FALSE, FALSE, <<"build">>), Pattern(FALSE, TRUE, <<"build">>),
                 Pattern(FALSE, FALSE, <<"sub">>), Pattern(TRUE, FALSE, <<"build", "sub">>),
                 Pattern(FALSE, FALSE, <<"src">>)}

NoWalk == [disk |-> {}, lines |-> <<>>, found |-> {}, ran |-> FALSE,
           exclude_memignore |-> FALSE]

\* _load_memignore on the tree: the lines of .memignore, then ".mem/".
_load_memignore_lines(lines) == Append(lines, Pattern(FALSE, TRUE, <<".mem">>))

\* The regular expression gitwildmatch compiles a line to, applied to a
\* relative path: "name" is ^(?:.+/)?name(?:/.*)?$, "name/" is
\* ^(?:.+/)?name/.*$, "a/b" is ^a/b(?:/.*)?$ and "a/b/" is ^a/b/.*$.
PatternMatches(pattern, rel_path) ==
    LET n == Len(pattern.segs)
        starts == IF n = 1 THEN 1..Len(rel_path) ELSE {1}
    IN  \E i \in starts :
            /\ i + n - 1 <= Len(rel_path)
            /\ SubSeq(rel_path, i, i + n - 1) = pattern.segs
            /\ pattern.dir_only => i + n - 1 < Len(rel_path)

\* PathSpec.match_file: the last line that matches decides, a negated line
\* against; no line matching, the path is not ignored.  The project root "."
\* is the empty path.
PathSpec_match_file(pspec, rel_path) ==
    LET hits == {i \in DOMAIN pspec : PatternMatches(pspec[i], rel_path)}
    IN  hits # {} /\ ~pspec[CHOOSE i \in hits : \A j \in hits : j <= i].negated

Parent(rel_path) == SubSeq(rel_path, 1, Len(rel_path) - 1)

\* The directories os.walk visits from the project root: ".mem" is taken out
\* of dirs in every directory whose files are looked at, which a directory
\* skipped by `continue` is not; nothing else is taken out of dirs.
Walked(pspec, exclude_memignore, root) ==
    \A k \in 1..Len(root) :
        root[k] = ".mem" =>
            exclude_memignore /\ PathSpec_match_file(pspec, SubSeq(root, 1, k - 1))

\* _filter_new_files([project_path], None, exclude_memignore) on the tree:
\* the files of every walked directory that is not skipped, the files the
\* filter rejects left out.
_filter_new_files_walk(disk, lines, exclude_memignore) ==
    LET memignore_pspec == _load_memignore_lines(lines)
        filter(rel_file) ==
            exclude_memignore /\ PathSpec_match_file(memignore_pspec, rel_file)
    IN  {f \in disk :
            /\ Walked(memignore_pspec, exclude_memignore, Parent(f))
            /\ ~(exclude_memignore /\ PathSpec_match_file(memignore_pspec, Parent(f)))
            /\ ~filter(f)}

WalkFrame == UNCHANGED <<files, memDir, commits, head, registry, notes, steps, last, procs>>

\* A file is created in the tree.
WalkCreate ==
    \E f \in WalkFiles \ walk.disk :
        /\ walk' = [NoWalk EXCEPT !.disk = walk.disk \cup {f}, !.lines = walk.lines]
        /\ WalkFrame

\* A line is added to .memignore.
WalkIgnore ==
    \E line \in PatternLines :
        /\ Len(walk.lines) < MaxPatterns
        /\ walk' = [NoWalk EXCEPT !.disk = walk.disk, !.lines = Append(walk.lines, line)]
        /\ WalkFrame

\* Discovery runs over the project directory, for track (exclude_memignore)
\* or for status (not).
Discover ==
    \E exclude_memignore \in BOOLEAN :
        /\ walk' = [walk EXCEPT
                       !.found = _filter_new_files_walk(walk.disk, walk.lines,
                                                        exclude_memignore),
                       !.ran = TRUE,
                       !.exclude_memignore = exclude_memignore]
        /\ WalkFrame

DiscoveryNext == WalkCreate \/ WalkIgnore \/ Discover

\* ------------------------------------------------------------- scenario
\* The scenario of the specification's section 5, one call per step on an
\* empty directory: init; a is written and tracked; a is edited and
\* snapshotted; jump to the commit that tracked a; b is written and tracked.
\* The contents written are any of 1..MaxContent.
ScenarioContents == 1..MaxContent

ScenarioStep(k) ==
    /\ steps = k
    /\ steps' = k + 1
    /\ UNCHANGED <<procs, walk>>
    /\ notes' = notes

ScenarioWrite(k, path) ==
    \E c \in ScenarioContents :
        /\ ScenarioStep(k)
        /\ files[path] # c
        /\ files' = [files EXCEPT ![path] = c]
        /\ last' = Last("user", "ok", None)
        /\ UNCHANGED <<memDir, commits, head, registry>>

ScenarioTrack(k, path) ==
    LET r == trackOp(State, {path}, TRUE)
    IN  /\ ScenarioStep(k)
        /\ Apply(r)
        /\ last' = [Last("track", r.result, r.ret) EXCEPT !.paths = {path}]

ScenarioInit ==
    LET r == initOp(State, TRUE)
    IN  /\ ScenarioStep(0)
        /\ Apply(r)
        /\ last' = Last("init", r.result, r.ret)

ScenarioWriteA == ScenarioWrite(1, "a")

ScenarioTrackA == ScenarioTrack(2, "a")

ScenarioEditA == ScenarioWrite(3, "a")

ScenarioSnap ==
    LET r == snapshotOp(State, TRUE)
    IN  /\ ScenarioStep(4)
        /\ Apply(r)
        /\ last' = [Last("snapshot", r.result, r.ret) EXCEPT !.current = registry.current]

\* jump(H1): H1 is the commit before the snapshot, the parent of HEAD.
ScenarioJump ==
    LET H1 == commits[head].parent
        r == jumpOp(State, H1)
    IN  /\ ScenarioStep(5)
        /\ Apply(r)
        /\ last' = [Last("jump", r.result, None) EXCEPT !.target = H1]

ScenarioWriteB == ScenarioWrite(6, "b")

ScenarioTrackB == ScenarioTrack(7, "b")

ScenarioNext ==
    \/ ScenarioInit
    \/ ScenarioWriteA
    \/ ScenarioTrackA
    \/ ScenarioEditA
    \/ ScenarioSnap
    \/ ScenarioJump
    \/ ScenarioWriteB
    \/ ScenarioTrackB

\* ================================================================ claims
NewCommit == Len(commits') = Len(commits) + 1

JumpedOk == last.op = "jump" /\ last.result = "ok"

\* The paths of the tree of any commit reachable from any branch tip.
HistoricalUnion == UNION {DOMAIN commits[c].tree : c \in ReachableCommits(State)}

\* C1: in every reachable state every value of the registry's branches map is
\* the hash of a commit that exists in the object store, and current is none
\* or a key of branches.
C1_RegistryNamesCommits ==
    registry.exists =>
        /\ \A i \in DOMAIN registry.branches :
              CommitExists(commits, registry.branches[i].tip)
        /\ registry.current = None
              \/ registry.current \in BranchNames(registry.branches)

\* C2: an operation that produces a commit leaves HEAD at that commit, a
\* successful jump leaves HEAD at its target, and every other operation
\* (no-op, abort, failed commit, status, amend, an edit of the workspace)
\* leaves HEAD unchanged.
C2_HeadFollowsLastCommitOrJump ==
    [][/\ NewCommit => head' = Len(commits')
       /\ ~NewCommit /\ JumpedOk' => head' = last'.target
       /\ ~NewCommit /\ ~JumpedOk' => head' = head]_vars

C2_Witness ==
    /\ JumpedOk
    /\ head = last.target
    /\ head # Len(commits)

\* C3: after a successful jump(C) no path of the historical union that is
\* not in tree(C) exists on disk, and every path of tree(C) has on disk the
\* content whose blob tree(C) records.
C3_JumpRestoresTarget ==
    JumpedOk =>
        LET tree == commits[last.target].tree
        IN  /\ \A p \in HistoricalUnion \ DOMAIN tree : files[p] = Absent
            /\ \A q \in DOMAIN tree : files[q] = tree[q]

C3_Witness ==
    /\ JumpedOk
    /\ HistoricalUnion \ DOMAIN commits[last.target].tree # {}
    /\ \E q \in DOMAIN commits[last.target].tree, c \in 1..Len(commits) :
          q \in DOMAIN commits[c].tree /\ commits[c].tree[q] # files[q]

\* C4: a successful jump(T) creates no commit, sets HEAD to T, sets current
\* to none and leaves the branch names and every branch tip unchanged.
C4_JumpOnlyMovesHead ==
    [][JumpedOk' =>
          /\ commits' = commits
          /\ head' = last'.target
          /\ registry'.current = None
          /\ registry'.branches = registry.branches]_vars

C4_Witness ==
    /\ JumpedOk
    /\ registry.current = None
    /\ head \notin BranchTips(registry.branches)
    /\ Len(registry.branches) > 0

CommitOps == {"track", "snapshot", "rename", "remove"}

\* The step is a committing operation that returned a new commit.
Committed == last'.op \in CommitOps /\ last'.result = "committed"

NewestCommit == commits'[Len(commits')]

\* The registry gained exactly the entries after its old ones, the old ones
\* unchanged.
TipsKept ==
    \A i \in DOMAIN registry.branches :
        /\ i \in DOMAIN registry'.branches
        /\ registry'.branches[i] = registry.branches[i]

GainsBranch ==
    BranchNames(registry'.branches) \ BranchNames(registry.branches) # {}

\* C5 as claimed: for every commit T, a committing operation that succeeds
\* directly after jump(T) adds a branch name that was not present and leaves
\* every existing branch tip unchanged.
C5_ForkAfterAnyJump ==
    [][JumpedOk /\ Committed => GainsBranch /\ TipsKept]_vars

\* C5 as amended: the same, for a jump to a commit T that is not the tip of
\* any branch.
C5_ForkAfterDetachingJump ==
    [][JumpedOk /\ head \notin BranchTips(registry.branches) /\ Committed
          => GainsBranch /\ TipsKept]_vars

\* A commit made on the fork develop/0: with every tip an existing commit,
\* only a commit made from a HEAD that a jump detached adds a branch.
C5_Witness ==
    /\ last.op \in CommitOps /\ last.result = "committed"
    /\ registry.current = "develop/0"
    /\ registry.branches[Len(registry.branches)] = [name |-> "develop/0", tip |-> head]
    /\ \A t \in BranchTips(registry.branches) : CommitExists(commits, t)
    /\ commits[head].parent \notin BranchTips(registry.branches)

\* C6: a track, snapshot, rename or remove issued after the first commit that
\* neither aborts nor is a no-op (and whose write the store does not reject)
\* adds exactly one commit, whose parent is the commit HEAD pointed at, and
\* that commit becomes the tip of the branch whose tip equalled HEAD or of a
\* newly created develop/<n> branch.
C6_EveryMutationCommits ==
    [][/\ last'.op \in CommitOps
       /\ last'.result \notin {"abort", "noop", "rejected"}
       /\ Len(commits) >= 1
       => /\ NewCommit
          /\ NewestCommit.parent = head
          /\ \E i \in DOMAIN registry'.branches :
                /\ registry'.branches[i].tip = Len(commits')
                /\ \/ i \in DOMAIN registry.branches /\ registry.branches[i].tip = head
                   \/ i \notin DOMAIN registry.branches]_vars

\* C7: the tree of a commit produced by track that has a parent holds every
\* path of its parent's tree.
C7_TrackKeepsTrackedPaths ==
    \A c \in 1..Len(commits) :
        commits[c].msg.first = "Track files" /\ commits[c].parent # NoCommit
            => DOMAIN commits[commits[c].parent].tree \subseteq DOMAIN commits[c].tree

C7_Witness ==
    \E c \in 1..Len(commits) :
        /\ commits[c].msg.first = "Track files"
        /\ commits[c].parent # NoCommit
        /\ DOMAIN commits[commits[c].parent].tree # DOMAIN commits[c].tree
        /\ Cardinality(DOMAIN commits[commits[c].parent].tree) >= 2

\* C8: the tree of a commit produced by snapshot has exactly the paths of
\* HEAD's tree, each with the blob of its on-disk content; a workspace file
\* that is not in HEAD's tree is not in the commit.
C8_SnapshotIsHeadPathsFromDisk ==
    [][last'.op = "snapshot" /\ NewCommit =>
          /\ DOMAIN NewestCommit.tree = get_files_by_commit(State, head)
          /\ \A p \in DOMAIN NewestCommit.tree : NewestCommit.tree[p] = files[p]
          /\ \A p \in Paths : p \notin get_files_by_commit(State, head)
                                 => p \notin DOMAIN NewestCommit.tree]_vars

\* A snapshot that captured an edit and left an untracked file out.
C8_Witness ==
    /\ last.op = "snapshot" /\ last.result = "committed"
    /\ \E p \in DOMAIN commits[head].tree :
          commits[head].tree[p] # commits[commits[head].parent].tree[p]
    /\ \E p \in Paths : files[p] # Absent /\ p \notin DOMAIN commits[head].tree

\* C9: the tree of a commit produced by remove(p) holds exactly the paths
\* tracked at HEAD minus p, and the tree of a commit produced by
\* rename(old, new) exactly the paths tracked at HEAD with old replaced by
\* new.
C9_RenameRemoveKeepTrackedSet ==
    [][/\ last'.op = "remove" /\ NewCommit
          => DOMAIN NewestCommit.tree = get_files_by_commit(State, head) \ {last'.old}
       /\ last'.op = "rename" /\ NewCommit
          => DOMAIN NewestCommit.tree =
                (get_files_by_commit(State, head) \ {last'.old}) \cup {last'.new}]_vars

\* The workspace paths of a status report: the scanned files and the paths
\* of HEAD's tree, as paths of the project directory.
OnDisk == {p \in Paths : files[p] # Absent}

HeadTree == IF CommitExists(commits, head) THEN commits[head].tree ELSE <<>>

InProject(S) == {Resolve(ProjectAbs, p) : p \in S}

\* C10: status assigns every path of HEAD's tree or on disk to exactly one
\* class: untracked (on disk, not in HEAD's tree), deleted (in HEAD's tree,
\* not on disk), modified (in both, hashes differ), clean (in both, hashes
\* equal); no path is in two classes and none is left out.
C10_StatusPartitions ==
    last.op = "status" /\ last.ret = "success" =>
        LET r == last.report
        IN  /\ r.untracked = InProject(OnDisk \ DOMAIN HeadTree)
            /\ r.deleted = InProject(DOMAIN HeadTree \ OnDisk)
            /\ r.modified = InProject({p \in OnDisk \cap DOMAIN HeadTree :
                                         HeadTree[p] # files[p]})
            /\ r.clean = InProject({p \in OnDisk \cap DOMAIN HeadTree :
                                      HeadTree[p] = files[p]})

\* The manager-visible state a call returned.
StateOf(r) == [files |-> r.files, memDir |-> r.memDir, commits |-> r.commits,
               head |-> r.head, registry |-> r.registry]

\* C11: in every reachable state and for every existing commit C, jump(C)
\* run twice in succession leaves the same workspace content, the same HEAD
\* and the same registry as jump(C) run once.
C11_JumpIdempotent ==
    \A C \in 1..Len(commits) :
        LET once == jumpOp(State, C)
            twice == jumpOp(StateOf(once), C)
        IN  /\ twice.files = once.files
            /\ twice.head = once.head
            /\ twice.registry = once.registry
            /\ twice.result = once.result

\* The second of two successive jumps to one commit, away from every branch
\* tip and with a file of the historical union removed from the workspace.
C11_Witness ==
    /\ JumpedOk /\ last.again
    /\ head \notin BranchTips(registry.branches)
    /\ HistoricalUnion \ DOMAIN commits[head].tree # {}

\* C12: a jump (successful or not) neither creates, overwrites nor deletes a
\* workspace file whose path is outside the historical union, the paths of
\* the trees of the commits reachable from the branch tips.
C12_JumpLeavesOtherFiles ==
    [][last'.op = "jump" =>
          \A p \in Paths \ HistoricalUnion : files'[p] = files[p]]_vars

\* A successful jump that removed a file of the historical union and left a
\* never-tracked file in the workspace.
C12_Witness ==
    /\ JumpedOk
    /\ \E p \in Paths \ HistoricalUnion : files[p] # Absent
    /\ \E q \in HistoricalUnion \ DOMAIN commits[head].tree : files[q] = Absent

\* C13: once amend has set a note with the non-empty prompt P on commit C,
\* every row history shows for C and every record a trace export holds for
\* C reports P as the prompt, and the stored message of C is the one C was
\* committed with.
C13_AmendedPromptReported ==
    \A C \in DOMAIN notes :
        notes[C].prompt # None =>
            /\ \A k \in DOMAIN historyOp(State, notes) :
                  historyOp(State, notes)[k].commit = C
                      => historyOp(State, notes)[k].prompt = notes[C].prompt
            /\ \A e \in export_traceOp(State).trace_data :
                  e.commit_hash = C => e.prompt = notes[C].prompt
            /\ get_commit_message(State, C).prompt = FormatValue(None)

\* C14: amend changes at most the note of the commit it names: no commit
\* (hash, tree, parent, message), branch tip, current, HEAD or workspace file
\* changes and no other commit's note does; called with neither a prompt nor
\* a response it is rejected and the notes are left as they were.
C14_AmendOnlyWritesNote ==
    [][last'.op = "amend" =>
          /\ commits' = commits
          /\ registry' = registry
          /\ head' = head
          /\ files' = files
          /\ \A c \in (DOMAIN notes \cup DOMAIN notes') \ {last'.target} :
                c \in DOMAIN notes /\ c \in DOMAIN notes' /\ notes'[c] = notes[c]
          /\ last'.prompt = None /\ last'.response = None
                => last'.result = "abort" /\ notes' = notes]_vars

\* A rejected amend of a commit that has a note, another commit having a
\* note too.
C14_Witness ==
    /\ last.op = "amend" /\ last.result = "abort"
    /\ last.target \in DOMAIN notes
    /\ notes[last.target].prompt = "P"
    /\ \E c \in DOMAIN notes : c # last.target

\* C15: when the write of track's commit fails (a blob, the tree or the
\* commit cannot be created), track returns failed_to_commit and the
\* registry (branch names, tips, current) and HEAD are as before the call.
C15_FailedTrackLeavesRegistry ==
    [][last'.op = "track" /\ last'.result \in {"rejected", "failed"} =>
          /\ last'.ret = "failed_to_commit"
          /\ registry' = registry
          /\ head' = head]_vars

\* C16: when a target path passed to track does not exist, no file of the
\* batch is committed: track makes no commit.
C16_DiscoveryAllOrNothing ==
    [][/\ last'.op = "track"
       /\ \E p \in last'.paths \cap Paths : files[p] = Absent
       => commits' = commits]_vars

\* C17: rename(old, new) called when both paths exist on disk or neither does
\* aborts: no file is moved, no commit is made and the registry and HEAD are
\* unchanged.
C17_RenameNeedsExactlyOne ==
    [][/\ last'.op = "rename"
       /\ (files[last'.old] # Absent) = (files[last'.new] # Absent)
       => /\ last'.result = "abort"
          /\ files' = files
          /\ commits' = commits
          /\ registry' = registry
          /\ head' = head]_vars

\* An aborted rename of a path tracked at HEAD onto another existing file.
C17_Witness ==
    /\ last.op = "rename" /\ last.result = "abort"
    /\ last.old # last.new
    /\ files[last.old] # Absent /\ files[last.new] # Absent
    /\ last.old \in DOMAIN HeadTree

\* C18: remove(p) aborts, with no commit, no file deleted and the registry
\* and HEAD unchanged, when p is not in HEAD's tree, and when p exists on
\* disk and the confirmation is answered with anything other than yes.
C18_RemoveAborts ==
    [][/\ last'.op = "remove"
       /\ \/ last'.old \notin get_files_by_commit(State, head)
          \/ files[last'.old] # Absent /\ last'.answer \notin {"y", "Y", "yes"}
       => /\ last'.result = "abort"
          /\ files' = files
          /\ commits' = commits
          /\ registry' = registry
          /\ head' = head]_vars

\* A declined removal of a file that is tracked at HEAD and on disk.
C18_Witness ==
    /\ last.op = "remove" /\ last.result = "abort"
    /\ last.answer = "n"
    /\ last.old \in DOMAIN HeadTree
    /\ files[last.old] # Absent

\* C19: with no registry, status returns an error status and jump fails; in
\* both cases no registry is created, HEAD stays unset and no workspace file
\* is deleted or written.
C19_NoRegistryStatusJumpFail ==
    [][~registry.exists /\ last'.op \in {"status", "jump"} =>
          /\ last'.result = "error"
          /\ last'.op = "status" => last'.ret = "unknown_error"
          /\ ~registry'.exists
          /\ head' = NoCommit
          /\ files' = files]_vars

\* status called in an initialised project that has files but no registry.
C19_Witness ==
    /\ last.op = "status" /\ last.result = "error"
    /\ ~registry.exists
    /\ memDir
    /\ \E p \in Paths : files[p] # Absent

\* The paths a track call asks for: the files named and, for the project
\* directory, the files found in it.
Requested(file_paths) ==
    (file_paths \cap Paths) \cup (IF project_path \in file_paths THEN OnDisk ELSE {})

\* C20: when every path requested in track is in HEAD's tree or matches the
\* ignore matcher, track returns success, makes no commit and leaves the
\* registry and HEAD unchanged.
C20_TrackNothingNew ==
    [][/\ last'.op = "track"
       /\ \A p \in Requested(last'.paths) :
             \/ p \in get_files_by_commit(State, head)
             \/ match_file(_load_memignore(files), p)
       => /\ last'.ret = "success"
          /\ commits' = commits
          /\ registry' = registry
          /\ head' = head]_vars

\* A track of the project directory that found a tracked file and an
\* ignored one, and nothing else.
C20_Witness ==
    /\ last.op = "track" /\ last.result = "noop"
    /\ project_path \in last.paths
    /\ \E p \in OnDisk : p \in DOMAIN HeadTree
    /\ \E p \in OnDisk : p \notin DOMAIN HeadTree /\ match_file(_load_memignore(files), p)

\* The commits of the scenario: H1 tracked a, H2 is the snapshot of the edit.
ScenarioH1 ==
    CHOOSE c \in 1..Len(commits) :
        /\ "a" \in DOMAIN commits[c].tree
        /\ \A d \in 1..(c - 1) : "a" \notin DOMAIN commits[d].tree

ScenarioH2 ==
    CHOOSE c \in 1..Len(commits) :
        commits[c].parent = ScenarioH1 /\ commits[c].msg.first = "Create snapshot"

Tip(name) ==
    LET i == CHOOSE k \in DOMAIN registry.branches : registry.branches[k].name = name
    IN  registry.branches[i].tip

\* The scenario's checkpoints, for the trees written in terms of the tree
\* `base` that init's commit has: after track([a]) the registry is exactly
\* {main: H1} with tree(H1) = base + {a: hash(a)}; after the edit and snap,
\* main is at H2 and tree(H2)[a] differs from tree(H1)[a]; after jump(H1), a
\* has its H1 content and current is null; after track([b]), develop/0 is at
\* a commit with tree base + {a: H1's blob, b: hash(b)} and main is at H2.
ScenarioHolds(base) ==
    /\ steps = 3 =>
          /\ registry.exists /\ registry.current = "main"
          /\ registry.branches = <<[name |-> "main", tip |-> head]>>
          /\ commits[head].tree = base @@ [q \in {"a"} |-> files["a"]]
    /\ steps = 5 =>
          /\ registry.branches = <<[name |-> "main", tip |-> head]>>
          /\ head = Len(commits) /\ commits[head].parent = ScenarioH1
          /\ commits[head].tree["a"] # commits[ScenarioH1].tree["a"]
    /\ steps = 6 =>
          /\ files["a"] = commits[ScenarioH1].tree["a"]
          /\ registry.current = None
          /\ head = ScenarioH1
    /\ steps = 8 =>
          /\ BranchNames(registry.branches) = {"main", "develop/0"}
          /\ registry.current = "develop/0"
          /\ Tip("develop/0") = head /\ head = Len(commits)
          /\ commits[head].tree =
                base @@ [q \in {"a", "b"} |->
                           IF q = "a" THEN commits[ScenarioH1].tree["a"] ELSE files["b"]]
          /\ Tip("main") = ScenarioH2

\* C21 as claimed: the scenario's checkpoints with tree(H1) = {a: hash(a)} and
\* the last tree {a: H1's blob, b: new blob}.
C21_ScenarioAsWritten == ScenarioHolds(<<>>)

\* C21 as amended: the same checkpoints, every tree holding also the
\* .memignore that init wrote and tracked in a first commit on main.
C21_ScenarioWithMemignore ==
    ScenarioHolds([q \in {memignore_path} |-> 1])

\* The end of the scenario: four commits, the last one on develop/0.
C21_Witness ==
    /\ steps = 8
    /\ Len(commits) = 4
    /\ registry.current = "develop/0"
    /\ files["b"] # Absent

\* Every process has finished its operation and produced a commit.
AllCommitted ==
    \A p \in ProcIds : procs[p].pc = "done" /\ procs[p].commit_hash # NoCommit

\* The commits of the processes that no branch tip reaches.
LostCommits ==
    {procs[p].commit_hash : p \in ProcIds} \ ReachableCommits(State)

\* C22: two committing operations of concurrent processes can end with the
\* branch update of one of them lost, its commit being the tip of no branch
\* and reachable from no tip; when both operations have finished with a
\* commit, a commit is lost only if the two operations overlapped.
C22_LostUpdateOnlyByRace ==
    AllCommitted /\ LostCommits # {} => \A p \in ProcIds : procs[p].overlapped

\* Both operations finished with a commit, they overlapped, and the commit
\* of one of them is reachable from no branch tip.
C22_Witness ==
    /\ AllCommitted
    /\ \A p \in ProcIds : procs[p].overlapped
    /\ LostCommits # {}
    /\ registry.exists

\* The paths the ignore matcher built from the workspace's .memignore
\* matches.
Ignored == {p \in Paths : match_file(_load_memignore(files), p)}

\* C23: status considers only non-ignored workspace files: a file on disk
\* whose path matches the ignore matcher is not reported as untracked, and
\* is in no other class unless it is in HEAD's tree.
C23_StatusSkipsIgnored ==
    last.op = "status" /\ last.ret = "success" /\ last.cwd = ProjectAbs =>
        LET r == last.report
        IN  \A p \in (Ignored \cap OnDisk) \ DOMAIN HeadTree :
                Resolve(ProjectAbs, p) \notin
                    r.untracked \cup r.deleted \cup r.modified \cup r.clean

\* C24: the registry is absent until the first successful commit; the first
\* successful commit C creates it as {current: main, branches: {main: C}}
\* and points HEAD at C; a first committing attempt that fails or has
\* nothing to commit creates no registry.
C24_RegistryBornWithFirstCommit ==
    [][~registry.exists =>
          IF NewCommit
          THEN /\ registry' = [exists |-> TRUE, current |-> "main",
                               branches |-> <<[name |-> "main", tip |-> Len(commits')]>>]
               /\ head' = Len(commits')
          ELSE ~registry'.exists]_vars

\* The branches whose tip is the commit HEAD points at.
AtHead == {i \in DOMAIN registry.branches : registry.branches[i].tip = head}

\* C25: when a committing operation produces commit C while HEAD equals the
\* tip of branch b, afterwards branches[b] = C, current = b, HEAD = C, no
\* branch name is added and every other branch's tip is unchanged; also
\* when current was none because HEAD was reached by jumping to b's tip.
C25_CommitAdvancesBranchAtHead ==
    [][Committed /\ registry.exists =>
          \A b \in AtHead :
              /\ registry'.branches[b] =
                     [name |-> registry.branches[b].name, tip |-> Len(commits')]
              /\ registry'.current = registry.branches[b].name
              /\ head' = Len(commits')
              /\ DOMAIN registry'.branches = DOMAIN registry.branches
              /\ \A i \in DOMAIN registry.branches \ {b} :
                    registry'.branches[i] = registry.branches[i]]_vars

\* A commit made right after a jump to the tip of main, which had set
\* current to none: main advanced to the commit and is current again.
C25_Witness ==
    /\ last.op \in CommitOps /\ last.result = "committed"
    /\ last.current = None
    /\ registry.current = "main"
    /\ Tip("main") = head
    /\ commits[head].parent # NoCommit

\* develop/<n> is the fork name the registry calls for: n is the smallest
\* non-negative integer for which develop/<n> is not a branch name.
SmallestUnused(name) ==
    \E n \in 0..Len(registry.branches) :
        /\ name = "develop/" \o ToString(n)
        /\ name \notin BranchNames(registry.branches)
        /\ \A j \in 0..(n - 1) :
              "develop/" \o ToString(j) \in BranchNames(registry.branches)

\* C26: when a committing operation produces commit C while HEAD equals no
\* branch tip, exactly one branch is added, named develop/<n> with n the
\* smallest non-negative integer such that develop/<n> is not already a
\* branch name; it becomes current with tip C, and all existing branch tips
\* are unchanged.
C26_CommitOffTipForks ==
    [][Committed /\ registry.exists /\ AtHead = {} =>
          /\ Len(registry'.branches) = Len(registry.branches) + 1
          /\ TipsKept
          /\ LET added == registry'.branches[Len(registry'.branches)]
             IN  /\ SmallestUnused(added.name)
                 /\ added.tip = Len(commits')
                 /\ registry'.current = added.name]_vars

\* A second fork: develop/0 exists and the commit made off every tip is the
\* tip of the new current branch develop/1.
C26_Witness ==
    /\ last.op \in CommitOps /\ last.result = "committed"
    /\ registry.current = "develop/1"
    /\ "develop/0" \in BranchNames(registry.branches)
    /\ registry.branches[Len(registry.branches)] = [name |-> "develop/1", tip |-> head]

\* The position process p has reached, or had reached when it crashed.
Reached(p) == IF procs[p].pc = "crashed" THEN procs[p].at ELSE procs[p].pc

\* No other process has touched the registry or HEAD: each is idle or
\* crashed before it saved the registry.
Undisturbed(p) ==
    \A q \in ProcIds \ {p} :
        \/ procs[q].pc = "idle"
        \/ procs[q].pc = "crashed" /\ procs[q].at # "saved"

\* C27: within a committing operation the steps happen in the order write
\* commit, persist registry, move HEAD: at every intermediate point, a crash
\* between two steps included, HEAD does not point at the operation's commit
\* unless the persisted registry holds it as a branch tip; from the commit
\* write to the registry save the commit is referenced by nothing, and from
\* the registry save to the move of HEAD it is a branch tip that HEAD has
\* not adopted.
C27_RegistryBeforeHead ==
    \A p \in ProcIds :
        LET C == procs[p].commit_hash
        IN  Undisturbed(p) /\ C # NoCommit =>
                /\ head = C => C \in BranchTips(registry.branches)
                /\ Reached(p) \in {"written", "loaded", "resolved"} =>
                       /\ C \notin ReachableCommits(State)
                       /\ head # C
                /\ Reached(p) = "saved" =>
                       /\ C \in BranchTips(registry.branches)
                       /\ head # C
                /\ Reached(p) = "done" =>
                       /\ C \in BranchTips(registry.branches)
                       /\ head = C

\* One process crashed after writing its commit, which nothing references;
\* the other crashed after saving the registry, whose tip HEAD has not
\* adopted.
C27_Witness ==
    \E p \in ProcIds, q \in ProcIds :
        /\ procs[p].pc = "crashed" /\ procs[p].at = "written"
        /\ procs[p].commit_hash # NoCommit
        /\ procs[p].commit_hash \notin ReachableCommits(State)
        /\ procs[q].pc = "crashed" /\ procs[q].at = "saved"
        /\ procs[q].commit_hash \in BranchTips(registry.branches)
        /\ head # procs[q].commit_hash

\* C28: in the commit produced by track, every path that was already in
\* HEAD's tree keeps the blob hash it has in HEAD's tree, even if the file
\* was edited on disk since the last commit; only the newly discovered
\* paths get a blob computed from the current on-disk content.
C28_TrackKeepsTrackedBlobs ==
    [][last'.op = "track" /\ NewCommit /\ CommitExists(commits, head) =>
          \A p \in DOMAIN commits[head].tree :
              /\ p \in DOMAIN NewestCommit.tree
              /\ NewestCommit.tree[p] = commits[head].tree[p]]_vars

\* C29: the deletion step of jump(T) deletes exactly the on-disk files whose
\* path is in the historical union and not in tree(T); no file whose path
\* is in tree(T) is deleted at any point during jump.
C29_JumpDeletesExactlyStale ==
    [][last'.op = "jump" /\ last'.result = "ok" =>
          StaleFiles(State, all_tracked_files(State),
                     get_files_by_commit(State, last'.target))
              = {p \in OnDisk : /\ p \in HistoricalUnion
                                /\ p \notin DOMAIN commits[last'.target].tree}]_vars

\* C30: the history listing shows every commit reachable from any branch
\* tip exactly once, also when it is reachable from several tips, and shows
\* no commit that is unreachable from every tip.
C30_HistoryListsReachableOnce ==
    registry.exists =>
        LET rows == historyOp(State, notes)
        IN  /\ {rows[k].commit : k \in DOMAIN rows} = ReachableCommits(State)
            /\ \A j, k \in DOMAIN rows : rows[j].commit = rows[k].commit => j = k

\* The kind the history reader shows for the commits of an operation; init
\* commits through track.
KindOf(op) ==
    CASE op \in {"track", "init"} -> "track"
      [] op = "snapshot" -> "snap"
      [] op = "rename" -> "rename"
      [] op = "remove" -> "remove"

\* C31: for every commit produced by track, snapshot, rename or remove, in
\* each of their message variants, the operation kind the history reader
\* derives from the first line of the commit message is the kind of the
\* operation that produced the commit, never unknown and never the kind of
\* another operation.
C31_KindIsProducingOperation ==
    [][NewCommit /\ last'.op \in CommitOps \cup {"init"} =>
          _extract_operation_type(NewestCommit.msg) = KindOf(last'.op)]_vars

\* A remove of a file that was already missing has just committed, and its
\* message variant reads as a remove.
C31_Witness ==
    /\ last.op = "remove" /\ last.result = "committed"
    /\ commits[head].msg.first = "Remove file (already missing)"
    /\ _extract_operation_type(commits[head].msg) = "remove"

\* The directories above a file of the tree.
Above(f) == {SubSeq(f, 1, k) : k \in 1..(Len(f) - 1)}

\* C32: when discovery walks a directory for track, a subdirectory that
\* matches the ignore matcher, or is the metadata subdirectory, is not
\* descended into: no file anywhere beneath such a directory is returned.
C32_IgnoredSubtreesSkipped ==
    walk.ran /\ walk.exclude_memignore =>
        \A f \in walk.found : \A d \in Above(f) :
            /\ ~PathSpec_match_file(_load_memignore_lines(walk.lines), d)
            /\ d[Len(d)] # ".mem"

\* C33: under sequential execution, after any sequence of operations every
\* commit ever produced by a committing operation is reachable through
\* parent links from at least one branch tip, so that the historical union
\* computed by jump covers every path ever committed.
C33_EveryCommitReachable ==
    /\ \A c \in 1..Len(commits) : c \in ReachableCommits(State)
    /\ \A c \in 1..Len(commits) : DOMAIN commits[c].tree \subseteq HistoricalUnion

\* C34: in every state reachable under sequential execution, if the
\* registry's current is not none then branches[current] equals HEAD; and
\* current is none exactly when the last state-changing operation was a
\* jump: only a jump makes it none, and every successful jump does.
C34_CurrentBranchIsAtHead ==
    [][/\ registry'.exists /\ registry'.current # None =>
              \E i \in DOMAIN registry'.branches :
                  registry'.branches[i] = [name |-> registry'.current, tip |-> head']
       /\ registry.exists /\ registry.current # None /\ registry'.current = None
              => last'.op = "jump"
       /\ last'.op = "jump" /\ last'.result = "ok" => registry'.current = None]_vars

\* C35: branch names are never removed or renamed once created, and a
\* branch tip only ever moves forward: whenever branches[b] changes from X
\* to Y, Y is a commit whose parent is X.
C35_TipsOnlyMoveForward ==
    [][\A i \in DOMAIN registry.branches :
          /\ i \in DOMAIN registry'.branches
          /\ registry'.branches[i].name = registry.branches[i].name
          /\ registry'.branches[i].tip # registry.branches[i].tip =>
                /\ CommitExists(commits', registry'.branches[i].tip)
                /\ commits'[registry'.branches[i].tip].parent
                       = registry.branches[i].tip]_vars

\* C36: if the target passed to jump does not name an existing commit, or
\* its archive cannot be produced, jump leaves HEAD, the registry and every
\* workspace file unchanged: no tracked file is deleted.
C36_FailedJumpTouchesNothing ==
    [][last'.op = "jump" /\ ~CommitExists(commits, last'.target) =>
          /\ head' = head
          /\ registry' = registry
          /\ files' = files]_vars

\* C37: snapshot returns success only when it produced a new commit or
\* HEAD's tracked set was empty; if the commit could not be written, for
\* example because a tracked file is missing on disk, snapshot does not
\* report success and does not change the registry or HEAD.
C37_SnapshotReportsFailure ==
    [][last'.op = "snapshot" =>
          /\ last'.ret = "success" =>
                NewCommit \/ get_files_by_commit(State, head) = {}
          /\ ~NewCommit => registry' = registry /\ head' = head]_vars

\* C38: after any remove(p) that is not aborted, a new commit exists, HEAD
\* points at it and p is not in HEAD's tree; also when p was the last file
\* remaining in the workspace.
C38_RemoveAlwaysCommits ==
    [][last'.op = "remove" /\ last'.result \notin {"abort", "rejected"} =>
          /\ NewCommit
          /\ head' = Len(commits')
          /\ last'.old \notin DOMAIN commits'[head'].tree]_vars

\* C39: immediately after a successful jump(C), status reports every path
\* of tree(C) as clean and reports no path as modified or deleted.
C39_StatusCleanAfterJump ==
    [][JumpedOk /\ last'.op = "status" =>
          /\ last'.ret = "success"
          /\ InProject(DOMAIN commits[last.target].tree) \subseteq last'.report.clean
          /\ last'.report.modified = {}
          /\ last'.report.deleted = {}]_vars

\* C40 as claimed: init on a workspace that init already initialised
\* creates no new commit and leaves the registry, HEAD and the ignore file
\* unchanged, whatever operations ran in between.
C40_InitIdempotent ==
    [][last'.op = "init" /\ memDir =>
          /\ ~NewCommit
          /\ registry' = registry
          /\ head' = head
          /\ files'[memignore_path] = files[memignore_path]]_vars

\* C40 as amended: init on a workspace that init already initialised and
\* whose ignore file is on disk changes nothing; when the ignore file has
\* been removed in between, init writes its header again, and any commit it
\* then makes is one that adds the ignore file to HEAD's tree.
C40_InitIdempotentWhileIgnoreFileExists ==
    [][last'.op = "init" /\ memDir =>
          IF files[memignore_path] # Absent
          THEN /\ ~NewCommit
               /\ registry' = registry
               /\ head' = head
               /\ files' = files
          ELSE /\ files'[memignore_path] # Absent
               /\ NewCommit =>
                     /\ memignore_path \notin get_files_by_commit(State, head)
                     /\ memignore_path \in DOMAIN NewestCommit.tree]_vars

\* A second init that found the ignore file, which the user had edited, and
\* did nothing, commits having been made since the first.
C40_Witness ==
    /\ last.op = "init" /\ last.result = "noop"
    /\ Len(commits) >= 2
    /\ files[memignore_path] = 2

\* -------------------------------------------------------- specification
\* A MemovManager constructed over an empty project directory.
Init ==
    /\ files = [p \in Paths |-> Absent]
    /\ memDir = FALSE
    /\ commits = <<>>
    /\ head = NoCommit
    /\ registry = NoRegistry
    /\ notes = <<>>
    /\ steps = 0
    /\ last = Last("none", "ok", None)
    /\ procs = [p \in ProcIds |-> IdleProc]
    /\ walk = NoWalk

Next ==
    \/ init
    \/ track
    \/ snapshot
    \/ rename
    \/ remove
    \/ jump
    \/ status
    \/ amend_commit_message
    \/ history
    \/ export_trace
    \/ UserWrite
    \/ UserDelete

Spec == Init /\ [][Next]_vars

\* Committing operations run step by step by two processes.
Steps == Init /\ [][StepsNext]_vars

\* File discovery over a directory tree with a .memignore.
Discovery == Init /\ [][DiscoveryNext]_vars

\* The scenario run from the same empty directory.
Scenario == Init /\ [][ScenarioNext]_vars
====
